---- MODULE Spec2Model ----
(***************************************************************************)
(* Model of src/hooks/useDownload.ts: the caching downloader `download`,   *)
(* its hashing variant `download_with_sha`, their shared body `internal`   *)
(* and the cache key derivation `hash_key`.                                *)
(*                                                                         *)
(* The persistent state is the cache on disk (payload files, mtime         *)
(* markers, cache directories) and the headers object a caller may pass    *)
(* to several calls.  Each call is a small process whose steps are the     *)
(* await points of the code.                                               *)
(***************************************************************************)
EXTENDS Integers, Sequences, FiniteSets, TLC

\* ------------------------------------------------------------------ bounds
\* Number of versions of a resource the origin can serve.
MaxVersions == 2
\* Number of download calls made in one behaviour.
MaxCalls == 2

\* ------------------------------------------------------------ byte strings
\* A chunk of the response body: `len` bytes, all of value `data`.  A byte
\* string is a sequence of such runs in which adjacent runs differ in data
\* (run-length form), so equal byte strings are equal values whatever the
\* chunking they arrived in.
ChunkA == [data |-> "a", len |-> 255]
ChunkB == [data |-> "b", len |-> 1]

\* bytes \o chunk, kept in run-length form.
AppendBytes(bytes, chunk) ==
  IF chunk.len = 0 THEN bytes
  ELSE IF bytes # <<>> /\ bytes[Len(bytes)].data = chunk.data
       THEN [bytes EXCEPT ![Len(bytes)].len = @ + chunk.len]
       ELSE Append(bytes, chunk)

RECURSIVE Concat(_)
\* The byte string made of the chunks of a sequence, in order.
Concat(chunks) ==
  IF chunks = <<>> THEN <<>>
  ELSE AppendBytes(Concat(SubSeq(chunks, 1, Len(chunks) - 1)), chunks[Len(chunks)])

RECURSIVE ByteLength(_)
\* Number of bytes of a byte string (or of a sequence of chunks).
ByteLength(bytes) ==
  IF bytes = <<>> THEN 0 ELSE bytes[1].len + ByteLength(Tail(bytes))

RECURSIVE Take(_, _)
\* The first n bytes of a byte string (all of it when it is shorter).
Take(bytes, n) ==
  IF n = 0 \/ bytes = <<>> THEN <<>>
  ELSE IF bytes[1].len <= n
       THEN <<bytes[1]>> \o Take(Tail(bytes), n - bytes[1].len)
       ELSE <<[bytes[1] EXCEPT !.len = n]>>

RECURSIVE Drop(_, _)
\* A byte string without its first n bytes.
Drop(bytes, n) ==
  IF bytes = <<>> THEN <<>>
  ELSE IF n = 0 THEN bytes
  ELSE IF bytes[1].len <= n
       THEN Drop(Tail(bytes), n - bytes[1].len)
       ELSE <<[bytes[1] EXCEPT !.len = @ - n]>> \o Tail(bytes)

\* The bytes a file has past its end when it is written beyond it.
ZeroFill(len) == [data |-> "0", len |-> len]

\* A file's bytes after a write of chunk at an offset: a file handle writes
\* where its own earlier writes ended, over what the file has there.
WriteAt(bytes, offset, chunk) ==
  LET have == ByteLength(bytes)
      head == IF have >= offset THEN Take(bytes, offset)
              ELSE Append(bytes, ZeroFill(offset - have))
  IN  Concat(head \o <<chunk>> \o Drop(bytes, offset + chunk.len))

\* --------------------------------------------------------------- the origin
Versions == 1 .. MaxVersions

\* The body the origin serves for version v of a resource, as the sequence
\* of chunks the response stream delivers.
Body(v) ==
  CASE v = 1 -> <<ChunkA, ChunkB>>
    [] v = 2 -> <<ChunkB, ChunkA>>
    [] OTHER -> <<ChunkB>>

\* The Last-Modified value of version v (0 stands for "no such header").
LastModified(v) == v

\* ------------------------------------------------------------------- URLs
\* A URL as the fields the code reads.  pathname is the sequence of path
\* segments; search is as URL.search gives it: empty, or "?" followed by
\* the query; hash is the fragment.
MkUrl(protocol, hostname, pathname, search, hash) ==
  [protocol |-> protocol, hostname |-> hostname, pathname |-> pathname,
   search |-> search, hash |-> hash]

\* protocol is the sequence of the scheme and its trailing ":".
UrlExample ==
  MkUrl(<<"https", ":">>, "example.com", <<"a", "b.tar.gz">>, <<"?", "v=2">>, "")
UrlGithub ==
  MkUrl(<<"https", ":">>, "github.com", <<"a", "b.tar.gz">>, <<>>, "")
UrlFile ==
  MkUrl(<<"file", ":">>, "", <<"a", "b.tar.gz">>, <<>>, "")
\* A host that is neither github.com nor below it.
UrlLookalike ==
  MkUrl(<<"https", ":">>, "githubxcom", <<"a", "b.tar.gz">>, <<>>, "")

Urls == {UrlExample, UrlGithub, UrlFile}

RECURSIVE PathnameString(_)
\* url.pathname as a string (a sequence of tokens): "/" before each segment.
PathnameString(segments) ==
  IF segments = <<>> THEN <<>>
  ELSE <<"/", segments[1]>> \o PathnameString(Tail(segments))

\* Mutant: the query is left out of the digested string.
Formatted_PathOnly(url) == PathnameString(url.pathname)

\* The string hash_key's inner hash() digests.
Formatted(url) ==
  PathnameString(url.pathname)
    \o (IF url.search # <<>> THEN <<"?">> \o url.search ELSE <<>>)

\* Sha256 of a string or byte string, as its hex text: injective (collisions
\* are not modelled).
Sha256(input) == <<"sha256", input>>

\* usePrefix().www
PrefixWww == "www"

\* hash_key(url): the cache directory of a URL.
HashKey(url) ==
  <<PrefixWww,
    SubSeq(url.protocol, 1, Len(url.protocol) - 1),
    url.hostname,
    Sha256(Formatted(url))>>

\* src.path().basename(): the last segment of the pathname.
Basename(url) == url.pathname[Len(url.pathname)]

\* A host name as the pieces the pattern of line 51 tells apart: the text
\* "github", the text "com", single characters, and other text.
HostChars(host) ==
  CASE host = "github.com"     -> <<"github", ".", "com">>
    [] host = "api.github.com" -> <<"api", ".", "github", ".", "com">>
    [] host = "githubxcom"     -> <<"github", "x", "com">>
    [] host = "example.com"    -> <<"example", ".", "com">>
    [] OTHER                   -> <<>>

\* /(^|\.)github.com$/.test(src.host): the host ends with "github", any
\* one character (the pattern's "." is not escaped) and "com", and what
\* comes before is nothing or a ".".
GithubHost(host) ==
  LET t == HostChars(host)
      n == Len(t)
  IN  /\ n >= 3
      /\ t[n - 2] = "github"
      /\ t[n] = "com"
      /\ (n = 3 \/ t[n - 3] = ".")

\* ---------------------------------------------------------------- headers
\* A headers map, as the two entries the code writes: ims is the value of
\* If-Modified-Since (0: no such entry), auth says whether it holds
\* Authorization: bearer <token>.
NoHeaders == [ims |-> 0, auth |-> FALSE]

\* ---------------------------------------------------------------- options
NoDst == <<>>
\* A destination supplied by the caller.
CustomDst == <<"tmp", "b.tar.gz">>

Kinds == {"download", "download_with_sha"}

\* The DownloadOptions a caller passes for the URLs of a set: hdr says
\* whether opts.headers is absent ("none") or the caller's headers object
\* ("caller").
Options(urls) ==
  { [kind |-> k, src |-> u, dst |-> d, hdr |-> h, ephemeral |-> e] :
      k \in Kinds, u \in urls, d \in {NoDst, CustomDst},
      h \in {"none", "caller"}, e \in BOOLEAN }

Slots == {1, 2}

VARIABLES
  files,   \* payload files on disk: path -> bytes, for the paths that exist
  mtime,   \* mtime markers on disk: cache key -> stored Last-Modified value
  dirs,    \* cache directories that exist
  hdrs,    \* the caller's headers object
  call,    \* per slot, the call in progress or last finished
  ncalls,  \* number of calls begun
  keys     \* the calls of hash_key made from outside: <<url, path returned>>

vars == <<files, mtime, dirs, hdrs, call, ncalls, keys>>

NoPrev == [done200 |-> FALSE, src |-> UrlFile, dst |-> NoDst, lm |-> 0, version |-> 0]

IdleCall ==
  [pc |-> "idle", kind |-> "download", src |-> UrlFile, dst |-> NoDst,
   ephemeral |-> FALSE, numpty |-> FALSE, ci |-> FALSE,
   seenMtime |-> 0, seenDst |-> FALSE,
   token |-> FALSE, req |-> NoHeaders, nreq |-> 0,
   status |-> 0, version |-> 0, lm |-> 0, sz |-> 0,
   wr |-> 0, fed |-> 0, n |-> 0, digest |-> <<>>, run |-> FALSE, late |-> "",
   log |-> <<>>, sha |-> <<>>, err |-> "", prev |-> NoPrev]

\* dst ??= hash().join(src.path().basename())
DefaultDst(url) == Append(HashKey(url), Basename(url))

\* The cache starts empty, or as an earlier process left it after a complete
\* download of version 1 of UrlExample that carried Last-Modified.
Init ==
  /\ \/ /\ files = <<>>
        /\ mtime = <<>>
        /\ dirs = {}
     \/ /\ files = [d \in {DefaultDst(UrlExample)} |-> Concat(Body(1))]
        /\ mtime = [k \in {HashKey(UrlExample)} |-> LastModified(1)]
        /\ dirs = {HashKey(UrlExample)}
  /\ hdrs = NoHeaders
  /\ call = [p \in Slots |-> IdleCall]
  /\ ncalls = 0
  /\ keys = <<>>

\* ------------------------------------------------------- file system steps
\* f[k] := v, adding k to the domain of f when it is not there.
Put(f, k, v) == [x \in DOMAIN f \cup {k} |-> IF x = k THEN v ELSE f[x]]

\* dst.isReadableFile() / dst.isFile()
IsFile(path) == path \in DOMAIN files

\* mtime_entry().isFile()
HasMarker(key) == key \in DOMAIN mtime

\* The condition of line 42.
UsableBaseline(ephemeral, key, dst) ==
  ~ephemeral /\ HasMarker(key) /\ IsFile(dst)

\* headers["If-Modified-Since"] = value
SetIfModifiedSince(h, value) == [h EXCEPT !.ims = value]

\* headers["Authorization"] = `bearer ${token}`
SetAuthorization(h) == [h EXCEPT !.auth = TRUE]

\* The headers map `headers` refers to when fetch is called (lines 42-57):
\* h0 is the map opts.headers refers to, or the empty map `headers ??= {}`
\* makes.
RequestHeaders(h0, conditional, baseline, github, token) ==
  LET h1 == IF conditional THEN SetIfModifiedSince(h0, baseline) ELSE h0
  IN  IF github /\ token THEN SetAuthorization(h1) ELSE h1

\* A logger.replace(...) call: what is shown, and the number shown with it.
LogEntry(kind, val) == [kind |-> kind, val |-> val]

\* The summary of a finished call that the next call of the caller keeps.
Summary(c) ==
  IF c.pc = "done" /\ c.status = 200
  THEN [done200 |-> TRUE, src |-> c.src, dst |-> c.dst, lm |-> c.lm,
        version |-> c.version]
  ELSE NoPrev

\* Mutant: the scheme is never tested.
UnsupportedScheme_Never(url) == FALSE

\* The test of line 40.
UnsupportedScheme(url) == url.protocol = <<"file", ":">>

\* ------------------------------------------------------------------ steps
\* download(opts) / download_with_sha(opts) up to the await of fetch:
\* lines 100-106 and 28-59.  numpty is useFlags().numpty, ci whether CI is
\* set, token whether GITHUB_TOKEN is set.
Begin(p, o, numpty, ci, token) ==
  LET key    == HashKey(o.src)
      dst    == IF o.dst = NoDst THEN DefaultDst(o.src) ELSE o.dst
      dirs1  == IF o.dst = NoDst THEN dirs \cup {key} ELSE dirs
      cond   == UsableBaseline(o.ephemeral, key, dst)
      dirs2  == IF o.ephemeral THEN dirs1 ELSE dirs1 \cup {key}
      h0     == IF o.hdr = "caller" THEN hdrs ELSE NoHeaders
      h      == RequestHeaders(h0, cond, IF cond THEN mtime[key] ELSE 0,
                               GithubHost(o.src.hostname), token)
      base   == [IdleCall EXCEPT
                   !.kind = o.kind, !.src = o.src, !.dst = dst,
                   !.ephemeral = o.ephemeral, !.numpty = numpty, !.ci = ci,
                   !.token = token, !.prev = call[p].prev]
  IN
  /\ call[p].pc = "idle"
  /\ ncalls < MaxCalls
  /\ ncalls' = ncalls + 1
  /\ o.kind = "download" => ~ci
  /\ ~GithubHost(o.src.hostname) => ~token
  /\ UNCHANGED <<files, mtime, keys>>
  /\ IF UnsupportedScheme(o.src)
     THEN /\ call' = [call EXCEPT ![p] = [base EXCEPT !.pc = "failed", !.err = "scheme"]]
          /\ dirs' = dirs1
          /\ UNCHANGED hdrs
     ELSE /\ call' = [call EXCEPT ![p] =
                [base EXCEPT
                   !.pc = "fetching",
                   !.seenMtime = IF HasMarker(key) THEN mtime[key] ELSE 0,
                   !.seenDst = IsFile(dst),
                   !.log = <<LogEntry(IF cond THEN "querying" ELSE "downloading", 0)>>,
                   !.req = h, !.nreq = 1]]
          /\ dirs' = dirs2
          /\ hdrs' = IF o.hdr = "caller" THEN h ELSE hdrs

\* chuzzle(parseInt(rsp.headers.get("Content-Length"))): the declared size,
\* 0 (as falsy as undefined in the code's tests of sz) when there is none.
DeclaredSize(hasContentLength, body) ==
  IF hasContentLength THEN ByteLength(body) ELSE 0

\* The statuses the origin answers with; 304 answers a conditional request.
Statuses(req) == {200, 500} \cup (IF req.ims # 0 THEN {304} ELSE {})

\* Mutant: the file is not hashed when the body callback has not run.
Returned_NoVerify(c) ==
  [c EXCEPT !.pc = "done",
            !.sha = IF c.kind = "download_with_sha" THEN Sha256(c.digest) ELSE <<>>]

\* `return dst` of internal (line 92), then what its caller does with it:
\* download returns; download_with_sha goes on to hash the file when the
\* body callback has not run (line 127).
Returned(c) ==
  IF c.kind = "download_with_sha" /\ ~c.run
  THEN [c EXCEPT !.pc = "verifying",
                 !.log = Append(@, LogEntry("verifying", 0))]
  ELSE [c EXCEPT !.pc = "done",
                 !.sha = IF c.kind = "download_with_sha" THEN Sha256(c.digest) ELSE <<>>]

\* The call as the 200 branch carries it on: no line of that branch reads
\* ephemeral, numpty, the request headers or what line 42 saw of the
\* destination, and they are dropped.
Responded200(c) ==
  [c EXCEPT !.status = 200, !.ephemeral = FALSE, !.numpty = FALSE,
            !.token = FALSE, !.req = NoHeaders, !.seenDst = FALSE]

\* Mutant: the destination is opened before the status is looked at.
OpenForWrite_AnyStatus(status, dst) == Put(files, dst, <<>>)

\* The payload files once the response's status has been dispatched on:
\* only the 200 branch opens the destination, which creates or truncates
\* it (line 70).
OpenForWrite(status, dst) ==
  IF status = 200 THEN Put(files, dst, <<>>) ELSE files

\* Mutant: a rejected fetch is tried once more.
TransportError_Retry(c) ==
  IF c.nreq < 2 THEN [c EXCEPT !.nreq = @ + 1]
  ELSE [c EXCEPT !.pc = "failed", !.err = "transport"]

\* The call after fetch has rejected: the await of line 59 throws and
\* nothing catches it.
TransportError(c) == [c EXCEPT !.pc = "failed", !.err = "transport"]

\* fetch rejects (DNS, TLS, connection reset): no response arrives.
FetchFail(p) ==
  /\ call[p].pc = "fetching"
  /\ call' = [call EXCEPT ![p] = TransportError(call[p])]
  /\ UNCHANGED <<files, mtime, dirs, hdrs, ncalls, keys>>

\* The response arrives with status 200 (lines 62-73, to the first await of
\* the body callback): the destination is created or truncated and the
\* body callback starts.
Respond200(p, v, hasLastModified, hasContentLength) ==
  LET c  == call[p]
      sz == DeclaredSize(hasContentLength, Body(v))
  IN
  /\ c.pc = "fetching"
  /\ 200 \in Statuses(c.req)
  /\ files' = OpenForWrite(200, c.dst)
  /\ call' = [call EXCEPT ![p] =
        [Responded200(c) EXCEPT !.pc = "copying", !.version = v,
                  !.lm = IF hasLastModified THEN LastModified(v) ELSE 0,
                  !.sz = sz,
                  !.log = Append(@, LogEntry("downloading", sz)),
                  !.run = (c.kind = "download_with_sha")]]
  /\ UNCHANGED <<mtime, dirs, hdrs, ncalls, keys>>

\* The response arrives with status 304 (lines 83-85, 92).
Respond304(p) ==
  LET c == call[p] IN
  /\ c.pc = "fetching"
  /\ 304 \in Statuses(c.req)
  /\ call' = [call EXCEPT ![p] =
        Returned([c EXCEPT !.status = 304, !.log = Append(@, LogEntry("hit", 0))])]
  /\ files' = OpenForWrite(304, c.dst)
  /\ UNCHANGED <<mtime, dirs, hdrs, ncalls, keys>>

\* Mutant: the fallback is taken when either condition holds.
StatusFails_Both(numpty, dst) == ~numpty /\ ~IsFile(dst)

\* The test of line 87: the call fails on a status other than 200 and 304.
StatusFails(numpty, dst) == ~numpty \/ ~IsFile(dst)

\* The response arrives with another status (lines 86-92).
RespondOther(p, status) ==
  LET c == call[p] IN
  /\ c.pc = "fetching"
  /\ status \in Statuses(c.req) \ {200, 304}
  /\ call' = [call EXCEPT ![p] =
        IF StatusFails(c.numpty, c.dst)
        THEN [c EXCEPT !.pc = "failed", !.status = status, !.err = "status"]
        ELSE Returned([c EXCEPT !.status = status])]
  /\ files' = OpenForWrite(status, c.dst)
  /\ UNCHANGED <<mtime, dirs, hdrs, ncalls, keys>>

\* Math.round(n / sz * 100)
Percent(n, sz) == (200 * n + sz) \div (2 * sz)

\* Mutant: the copy waits while another call copies to the same path.
DiskActive_Exclusive(c) ==
  /\ c.pc = "copying" \/ (c.pc = "failed" /\ c.late = "disk")
  /\ Cardinality({q \in Slots : call[q].pc = "copying" /\ call[q].dst = c.dst}) <= 1

\* The copy to the destination is at work: the body callback is awaited,
\* or it has rejected (Promise.all of line 124 rejects with the first
\* rejection) while a write of the copy of line 113 was in flight.
DiskActive(c) == c.pc = "copying" \/ (c.pc = "failed" /\ c.late = "disk")

\* The digest branch is at work: the body callback is awaited, or it has
\* rejected on an error of the disk copy while the stream had more to give.
DigestActive(c) ==
  /\ c.kind = "download_with_sha"
  /\ c.pc = "copying" \/ (c.pc = "failed" /\ c.late = "digest")

\* copy(reader, dst) of lines 96 and 113: the next chunk of the body is
\* written to the destination file, after what this call's file handle
\* has written.
DiskWrite(p) ==
  LET c   == call[p]
      off == ByteLength(SubSeq(Body(c.version), 1, c.wr))
  IN
  /\ DiskActive(c)
  /\ c.wr < Len(Body(c.version))
  /\ files' = Put(files, c.dst, WriteAt(files[c.dst], off, Body(c.version)[c.wr + 1]))
  /\ call' = [call EXCEPT ![p] = [c EXCEPT !.wr = @ + 1, !.late = ""]]
  /\ UNCHANGED <<mtime, dirs, hdrs, ncalls, keys>>

\* Mutant: n = buf.length.
BytesSeen_Assign(n, buf) == buf.len

\* n += buf.length
BytesSeen(n, buf) == n + buf.len

\* The digest after digest.update(buf).
DigestUpdate(digest, buf) == AppendBytes(digest, buf)

\* Mutant: CI is not looked at.
ShowsPercent_IgnoresCI(sz, ci) == sz # 0

\* The test of line 117: sz && !ci.
ShowsPercent(sz, ci) == sz # 0 /\ ~ci

\* The write callback of lines 114-123: the next chunk of the second tee
\* branch goes into the digest and, when the size is known and CI is unset,
\* into the percentage shown.
DigestWrite(p) ==
  LET c   == call[p]
      buf == Body(c.version)[c.fed + 1]
      n   == BytesSeen(c.n, buf)
      late == IF c.fed + 1 = Len(Body(c.version)) THEN "" ELSE c.late
  IN
  /\ DigestActive(c)
  /\ c.fed < Len(Body(c.version))
  /\ call' = [call EXCEPT ![p] =
        IF ShowsPercent(c.sz, c.ci)
        THEN [c EXCEPT !.fed = @ + 1, !.digest = DigestUpdate(@, buf), !.n = n,
                       !.late = late,
                       !.log = Append(@, LogEntry("percent", Percent(n, c.sz)))]
        ELSE [c EXCEPT !.fed = @ + 1, !.digest = DigestUpdate(@, buf),
                       !.late = late]]
  /\ UNCHANGED <<files, mtime, dirs, hdrs, ncalls, keys>>

\* Mutant: the body callback is not awaited.
BodyDone_NotAwaited(c) == TRUE

\* Mutant: the body callback returns the disk copy's promise alone.
BodyDone_DiskOnly(c) == c.wr = Len(Body(c.version))

\* Both copies have reached the end of the body.
BodyDone(c) ==
  /\ c.wr = Len(Body(c.version))
  /\ c.kind = "download_with_sha" => c.fed = Len(Body(c.version))

\* The call after the body callback has rejected with no consumer left at
\* work: the callback's locals (digest, n, what it has shown) are gone with
\* it.
Rejected(c) ==
  [c EXCEPT !.pc = "failed", !.err = "io", !.fed = 0, !.n = 0,
            !.digest = <<>>, !.log = <<>>, !.sz = 0, !.ci = FALSE,
            !.run = FALSE]

\* The body callback rejects (a read error of the stream or a write error
\* of the file): line 73 throws, the finally block closes the file and the
\* error reaches the caller.  What was written stays on disk.  In
\* download_with_sha the rejection is that of Promise.all (line 124), which
\* comes with the first consumer that fails: `late` names the consumer that
\* is still at work then, if any.  "digest": the disk copy failed on a
\* write and the digest branch has more of the stream to read.  "disk":
\* the stream failed under the digest branch's pending read while a write
\* of the disk copy was in flight.
CopyFail(p, late) ==
  LET c == call[p] IN
  /\ c.pc = "copying"
  /\ ~BodyDone(c)
  /\ late = "disk" =>
        c.kind = "download_with_sha" /\ c.wr < Len(Body(c.version))
  /\ late = "digest" =>
        /\ c.kind = "download_with_sha"
        /\ c.wr < Len(Body(c.version))
        /\ c.fed < Len(Body(c.version))
  /\ call' = [call EXCEPT ![p] =
        IF late = "" THEN Rejected(c)
        ELSE [c EXCEPT !.pc = "failed", !.err = "io", !.late = late]]
  /\ UNCHANGED <<files, mtime, dirs, hdrs, ncalls, keys>>

\* Mutant: the Last-Modified value is never stored.
MarkerAfter_Never(key, lm) == mtime

\* The marker after lines 76-77 for a response whose Last-Modified is lm.
MarkerAfter(key, lm) == IF lm # 0 THEN Put(mtime, key, lm) ELSE mtime

\* The body callback has resolved: lines 76-81 and 92.
Finish(p) ==
  LET c   == call[p]
      key == HashKey(c.src)
  IN
  /\ c.pc = "copying"
  /\ BodyDone(c)
  /\ mtime' = MarkerAfter(key, c.lm)
  /\ dirs' = IF c.lm # 0 THEN dirs \cup {key} ELSE dirs
  /\ call' = [call EXCEPT ![p] = Returned(c)]
  /\ UNCHANGED <<files, hdrs, ncalls, keys>>

\* Lines 127-137: the file at the returned path is opened and read into the
\* digest; opening a path that does not exist throws.
Verify(p) ==
  LET c == call[p] IN
  /\ c.pc = "verifying"
  /\ call' = [call EXCEPT ![p] =
        IF IsFile(c.dst)
        THEN [c EXCEPT !.pc = "done", !.digest = Concat(files[c.dst]),
                       !.sha = Sha256(Concat(files[c.dst]))]
        ELSE [c EXCEPT !.pc = "failed", !.err = "open"]]
  /\ UNCHANGED <<files, mtime, dirs, hdrs, ncalls, keys>>

\* The promise of the call settles: the caller has the result or the error
\* and may call again.  What a consumer left at work does after that is
\* not followed.
Settle(p) ==
  /\ call[p].pc \in {"done", "failed"}
  /\ call' = [call EXCEPT ![p] = [IdleCall EXCEPT !.prev = Summary(call[p])]]
  /\ UNCHANGED <<files, mtime, dirs, hdrs, ncalls, keys>>

\* One step of the call in slot p, for a caller that downloads the URLs of
\* a set.
Step(p, urls) ==
  \/ \E o \in Options(urls), numpty \in BOOLEAN, ci \in BOOLEAN, token \in BOOLEAN :
        Begin(p, o, numpty, ci, token)
  \/ Settle(p)
  \/ \E v \in Versions, hasLastModified \in BOOLEAN, hasContentLength \in BOOLEAN :
        Respond200(p, v, hasLastModified, hasContentLength)
  \/ FetchFail(p)
  \/ Respond304(p)
  \/ RespondOther(p, 500)
  \/ DiskWrite(p)
  \/ DigestWrite(p)
  \/ \E late \in {"", "disk", "digest"} : CopyFail(p, late)
  \/ Finish(p)
  \/ Verify(p)

\* Calls made one after the other by one caller, for one http URL and a
\* file: URL.
Next == Step(1, {UrlExample, UrlFile})

Spec == Init /\ [][Next]_vars

\* The options of a caller of download for a github.com URL, a URL of
\* another host, and a URL whose host the pattern of line 51 takes for
\* github.com, each to its default destination.
AuthOptions ==
  { [kind |-> "download", src |-> u, dst |-> NoDst, hdr |-> h, ephemeral |-> e] :
      u \in {UrlExample, UrlGithub, UrlLookalike},
      h \in {"none", "caller"}, e \in BOOLEAN }

\* Calls of download made one after the other by that caller, with
\* GITHUB_TOKEN set or not.
NextAuth ==
  \/ \E o \in AuthOptions, token \in BOOLEAN : Begin(1, o, FALSE, FALSE, token)
  \/ Settle(1)
  \/ FetchFail(1)
  \/ \E v \in Versions, hasLastModified \in BOOLEAN :
        Respond200(1, v, hasLastModified, FALSE)
  \/ Respond304(1)
  \/ RespondOther(1, 500)
  \/ DiskWrite(1)
  \/ CopyFail(1, "")
  \/ Finish(1)

SpecAuth == Init /\ [][NextAuth]_vars

\* Two callers at once, each downloading UrlExample to its default
\* destination and answered 200.
ConcOptions ==
  { [kind |-> k, src |-> UrlExample, dst |-> NoDst, hdr |-> "none",
     ephemeral |-> TRUE] : k \in Kinds }

NextConc ==
  \E p \in Slots :
    \/ \E o \in ConcOptions, ci \in BOOLEAN : Begin(p, o, FALSE, ci, FALSE)
    \/ \E v \in Versions, hasLastModified \in BOOLEAN :
          Respond200(p, v, hasLastModified, FALSE)
    \/ DiskWrite(p)
    \/ DigestWrite(p)
    \/ Finish(p)

SpecConc == Init /\ [][NextConc]_vars

\* ------------------------------------------------------- hash_key alone
\* Number of calls of hash_key made in one behaviour.
MaxKeyCalls == 2

\* The URLs hash_key is called with: two schemes, two hosts, two paths,
\* with and without a query and a fragment.
KeyUrls ==
  { MkUrl(<<s, ":">>, h, pn, q, f) :
      s \in {"https", "http"}, h \in {"example.com", "github.com"},
      pn \in {<<"a", "b.tar.gz">>, <<"a">>},
      q \in {<<>>, <<"?", "v=2">>, <<"?", "v=1">>}, f \in {"", "#frag"} }

\* useDownload().hash_key(url): the path is returned and the directory
\* made (line 152).
HashKeyCall(url) ==
  /\ Len(keys) < MaxKeyCalls
  /\ keys' = Append(keys, <<url, HashKey(url)>>)
  /\ dirs' = dirs \cup {HashKey(url)}
  /\ UNCHANGED <<files, mtime, hdrs, call, ncalls>>

NextKey == \E url \in KeyUrls : HashKeyCall(url)

\* hash_key called on its own.
SpecKey == Init /\ [][NextKey]_vars

\* ----------------------------------------------------------------- claims
\* The value of the marker of a cache key, 0 when there is none.
Marker(key) == IF HasMarker(key) THEN mtime[key] ELSE 0

\* The percentages a call has shown so far.
Percents(c) == SelectSeq(c.log, LAMBDA e : e.kind = "percent")

\* C1: the request in flight carries If-Modified-Since, set to the stored
\* marker, exactly when ephemeral is false, the marker exists and the
\* destination is a readable file; otherwise it carries no such header.
C1_ConditionalExactlyWhenUsable ==
  \A p \in Slots :
    LET c == call[p] IN
    c.pc = "fetching" =>
      c.req.ims = (IF ~c.ephemeral /\ c.seenMtime # 0 /\ c.seenDst
                   THEN c.seenMtime ELSE 0)

\* C2: an ephemeral call never has a request in flight that carries
\* If-Modified-Since.
C2_EphemeralNeverConditional ==
  \A p \in Slots :
    call[p].pc = "fetching" /\ call[p].ephemeral => call[p].req.ims = 0

\* C3 as stated: after a download of a URL that completed on a 200, the
\* next non-ephemeral download of that URL sends If-Modified-Since, and on
\* a 304 the destination holds the bytes the first download wrote.
C3_RoundTripAny200 ==
  \A p \in Slots :
    LET c == call[p] IN
    c.prev.done200 /\ c.prev.src = c.src /\ ~c.ephemeral =>
      /\ c.pc = "fetching" => c.req.ims # 0
      /\ c.status = 304 =>
           IsFile(c.dst) /\ files[c.dst] = Concat(Body(c.prev.version))

\* C3 amended: after a download that completed on a 200 carrying
\* Last-Modified, the next non-ephemeral download of the same URL to the
\* same destination sends If-Modified-Since with that value, and on a 304
\* the destination holds the bytes the first download wrote.
C3_RoundTripWithLastModified ==
  \A p \in Slots :
    LET c == call[p] IN
    /\ c.prev.done200 /\ c.prev.lm # 0
    /\ c.prev.src = c.src /\ c.prev.dst = c.dst /\ ~c.ephemeral
    => /\ c.pc = "fetching" => c.req.ims = c.prev.lm
       /\ c.status = 304 =>
            IsFile(c.dst) /\ files[c.dst] = Concat(Body(c.prev.version))

\* C3 witness: a second, non-ephemeral download of the same URL to the same
\* destination was answered 304 after a first one that completed on a 200
\* with Last-Modified.
C3_Witness ==
  \E p \in Slots :
    LET c == call[p] IN
    /\ c.prev.done200 /\ c.prev.lm # 0
    /\ c.prev.src = c.src /\ c.prev.dst = c.dst /\ ~c.ephemeral
    /\ c.status = 304 /\ c.pc = "done"

\* C4: on a status other than 200 and 304 the call fails with the status
\* error unless numpty is set and the destination file exists; when both
\* hold it returns the path of that file and raises nothing.
C4_OtherStatusFailsUnlessFallback ==
  \A p \in Slots :
    LET c == call[p] IN
    c.status \notin {0, 200, 304} =>
      IF c.numpty /\ IsFile(c.dst)
      THEN c.pc \in {"verifying", "done"} /\ c.err = ""
      ELSE c.pc = "failed" /\ c.err = "status"

\* C4 witness: a call answered 500 returned the existing file.
C4_Witness ==
  \E p \in Slots :
    call[p].status = 500 /\ call[p].pc = "done" /\ call[p].kind = "download"

\* C5: within a call the marker keeps the value it had when the call began
\* until the whole body is in the destination file: it differs from that
\* value only once the call has returned from the 200 branch with the
\* complete body on disk, and never after a failure.
C5_MarkerOnlyAfterBody ==
  \A p \in Slots :
    LET c == call[p] IN
    c.pc # "idle" /\ Marker(HashKey(c.src)) # c.seenMtime =>
      /\ c.pc = "done" /\ c.status = 200
      /\ IsFile(c.dst) /\ files[c.dst] = Concat(Body(c.version))
      /\ Marker(HashKey(c.src)) = c.lm

\* C5 witness: a copy failed with part of the body written, under a
\* response that carried a Last-Modified other than the stored marker.
C5_Witness ==
  \E p \in Slots :
    LET c == call[p] IN
    /\ c.pc = "failed" /\ c.err = "io" /\ c.wr > 0
    /\ c.lm # 0 /\ c.lm # c.seenMtime

\* C6: when download_with_sha returns from a 200, the bytes fed to the
\* digest are the bytes in the destination file, and the sha returned is
\* the digest of that file, whatever the order of the two copies' steps.
C6_TeeDigestEqualsFile ==
  \A p \in Slots :
    LET c == call[p] IN
    c.kind = "download_with_sha" /\ c.pc = "done" /\ c.status = 200 =>
      /\ IsFile(c.dst)
      /\ c.digest = files[c.dst]
      /\ c.sha = Sha256(files[c.dst])

\* C6 witness: a download_with_sha call returned from a 200 whose body has
\* more than one chunk.
C6_Witness ==
  \E p \in Slots :
    LET c == call[p] IN
    /\ c.kind = "download_with_sha" /\ c.pc = "done" /\ c.status = 200
    /\ Len(Body(c.version)) > 1

C8_NoLastModifiedNoBaseline ==
  \A p \in Slots :
    LET c == call[p] IN
    /\ c.pc = "fetching" /\ ~c.ephemeral
    /\ c.prev.done200 /\ c.prev.lm = 0 /\ c.prev.src = c.src
    => c.seenMtime = 0 /\ c.log[1].kind = "downloading"

\* C9: a call for a file: URL fails at once and issues no request.
C9_FileSchemeNoRequest ==
  \A p \in Slots :
    LET c == call[p] IN
    c.pc # "idle" /\ c.src.protocol = <<"file", ":">> =>
      c.pc = "failed" /\ c.err = "scheme" /\ c.nreq = 0 /\ c.status = 0

\* C9 witness: a call for a file: URL has failed.
C9_Witness ==
  \E p \in Slots :
    call[p].pc = "failed" /\ call[p].src = UrlFile

\* C10 as stated: the percentages shown are non-decreasing, never above
\* 100, and 100 is shown exactly when all sz bytes have been consumed.
C10_HundredExactlyAtEnd ==
  \A p \in Slots :
    LET c  == call[p]
        ps == Percents(c)
    IN
    ps # <<>> =>
      /\ \A i \in 1 .. Len(ps) - 1 : ps[i].val <= ps[i + 1].val
      /\ ps[Len(ps)].val <= 100
      /\ ps[Len(ps)].val = 100 <=> c.n = c.sz

\* C10 amended: the percentages shown are non-decreasing and never above
\* 100; 100 is shown when all sz bytes have been consumed, and before that
\* as soon as more than 99.5% of them have been, never with less.
C10_HundredFromRounding ==
  \A p \in Slots :
    LET c  == call[p]
        ps == Percents(c)
    IN
    ps # <<>> =>
      /\ \A i \in 1 .. Len(ps) - 1 : ps[i].val <= ps[i + 1].val
      /\ ps[Len(ps)].val <= 100
      /\ c.n = c.sz => ps[Len(ps)].val = 100
      /\ 200 * c.n > 199 * c.sz => ps[Len(ps)].val = 100
      /\ ps[Len(ps)].val = 100 => 200 * c.n >= 199 * c.sz

\* C10 witness: 100 has been shown while bytes of the body are still to be
\* consumed.
C10_Witness ==
  \E p \in Slots :
    LET c  == call[p]
        ps == Percents(c)
    IN
    /\ ps # <<>>
    /\ ps[Len(ps)].val = 100 /\ c.n < c.sz

\* github.com or a subdomain of it.
GithubOrSubdomain(host) == host \in {"github.com", "api.github.com"}

\* C11: the request of a call carries the Authorization header exactly
\* when the host of its URL is github.com or a subdomain of it and
\* GITHUB_TOKEN is set; for every other host the token is not in the
\* request.
C11_AuthorizationOnlyForGithub ==
  \A p \in Slots :
    call[p].pc = "fetching" =>
      (call[p].req.auth <=>
         (GithubOrSubdomain(call[p].src.hostname) /\ call[p].token))


\* The URLs and the paths of the calls of hash_key made so far.
KeyCalls == {keys[i] : i \in 1 .. Len(keys)}

\* C12: hash_key gives one URL one directory; two URLs that differ only
\* in the fragment get the same directory; two URLs of the same scheme and
\* host that differ in the path or in the query get different directories.
C12_KeyIgnoresFragmentOnly ==
  \A x \in KeyCalls, y \in KeyCalls :
    LET u == x[1]
        v == y[1]
    IN  /\ u = v => x[2] = y[2]
        /\ [u EXCEPT !.hash = ""] = [v EXCEPT !.hash = ""] => x[2] = y[2]
        /\ ( /\ u.protocol = v.protocol
             /\ u.hostname = v.hostname
             /\ (u.pathname # v.pathname \/ u.search # v.search) )
           => x[2] # y[2]

\* hash_key was called for two URLs with a query that differ only in the
\* fragment.
C12_Witness ==
  /\ Len(keys) = 2
  /\ keys[1][1] # keys[2][1]
  /\ keys[1][1].search # <<>>
  /\ [keys[1][1] EXCEPT !.hash = ""] = [keys[2][1] EXCEPT !.hash = ""]


\* C13: for a URL with a query, the string hashed is the pathname followed
\* by the query as the URL has it ("/a/b.tar.gz?v=2" for
\* https://example.com/a/b.tar.gz?v=2), and the directory is
\* <root>/<scheme>/<host>/<hash of that string>.
C13_HashedStringAsInUrl ==
  \A x \in KeyCalls :
    x[1].search # <<>> =>
      x[2] = <<PrefixWww,
               SubSeq(x[1].protocol, 1, Len(x[1].protocol) - 1),
               x[1].hostname,
               Sha256(PathnameString(x[1].pathname) \o x[1].search)>>


\* C14: once a call has resolved or rejected (and the destination's file
\* handle is closed), both consumers of the tee have completed or failed:
\* neither the copy to the destination nor the digest branch is still at
\* work.
C14_BothConsumersJoined ==
  \A p \in Slots :
    call[p].pc \in {"done", "failed"} =>
      ~DiskActive(call[p]) /\ ~DigestActive(call[p])


\* C15: whenever a non-ephemeral download has returned through the 304
\* branch, the file at the returned path holds the complete body of the
\* 200 response whose Last-Modified is the stored marker.
C15_HitReturnsBodyOfMarker ==
  \A p \in Slots :
    LET c == call[p] IN
    c.pc = "done" /\ c.status = 304 /\ ~c.ephemeral =>
      /\ IsFile(c.dst)
      /\ \E v \in Versions :
            /\ LastModified(v) = Marker(HashKey(c.src))
            /\ files[c.dst] = Concat(Body(v))


\* C16: a step of a call that is not in the 200 branch (before the
\* response, on a rejected fetch, on status 304 or another status, while
\* the file is read for its digest) leaves the payload files and the mtime
\* markers as they are.
C16_OnlyStatus200Writes ==
  [][\A p \in Slots :
       call'[p].pc # "idle" /\ call'[p].status # 200 =>
         files' = files /\ mtime' = mtime]_vars

\* A call ended on status 500 with the destination and the marker on disk.
C16_Witness ==
  \E p \in Slots :
    LET c == call[p] IN
    /\ c.pc \in {"done", "failed"} /\ c.status = 500
    /\ IsFile(c.dst) /\ HasMarker(HashKey(c.src))


\* C17 as stated: a call makes at most one request, and a call that
\* returns was answered 200 or 304: every other status surfaces as an
\* error, as transport and copy errors do.
C17_OneRequestAllErrorsSurface ==
  \A p \in Slots :
    LET c == call[p] IN
    /\ c.nreq <= 1
    /\ c.err # "" => c.pc = "failed"
    /\ c.pc \in {"verifying", "done"} => c.status \in {200, 304}

\* C17, amended: a call makes at most one request; a call that has
\* rejected makes no request and does not return; a call that returns has
\* met no error, and was answered 200 or 304 unless numpty is set and the
\* destination is a file.
C17_OneRequestErrorsSurfaceButFallback ==
  [][\A p \in Slots :
       LET c == call[p]
           d == call'[p]
       IN  /\ d.nreq <= 1
           /\ c.pc = "failed" => d.pc \in {"failed", "idle"} /\ d.nreq \in {c.nreq, 0}
           /\ d.err # "" => d.pc = "failed"
           /\ d.pc \in {"verifying", "done"} =>
                \/ d.status \in {200, 304}
                \/ d.numpty /\ d.dst \in DOMAIN files']_vars

\* The fetch of a call was rejected, after its one request.
C17_Witness ==
  \E p \in Slots :
    call[p].pc = "failed" /\ call[p].err = "transport" /\ call[p].nreq = 1


\* C18: of two calls downloading one URL at once, neither waits for the
\* other: a call that awaits its response can take a 200, the copy of a
\* call that awaits its body is at work (the condition under which
\* DiskWrite writes the next chunk), and a call whose copies are done can
\* return, whatever the other call is doing.
C18_NeitherWaits ==
  \A p \in Slots :
    LET c == call[p] IN
    /\ c.pc = "fetching" => ENABLED Respond200(p, 1, TRUE, FALSE)
    /\ c.pc = "copying" => DiskActive(c)
    /\ c.pc = "copying" /\ BodyDone(c) => ENABLED Finish(p)

\* Both calls have returned from a 200, and the destination holds neither
\* response's body: it has bytes of both.
C18_Witness ==
  /\ \A p \in Slots : call[p].pc = "done" /\ call[p].status = 200
  /\ call[1].dst = call[2].dst
  /\ \A p \in Slots : files[call[p].dst] # Concat(Body(call[p].version))


\* What the logger shows besides percentages.
CoarseStates == {"querying", "downloading", "hit", "verifying"}

\* C19: in download_with_sha, when CI is set or the response declares no
\* usable Content-Length, no percentage is shown: the logger has only the
\* coarse states, and the digest still has every chunk the digest branch
\* was given.
C19_NoPercentUnderCIOrUnknownSize ==
  \A p \in Slots :
    LET c == call[p] IN
    ( /\ c.kind = "download_with_sha" /\ c.status = 200
      /\ c.pc \in {"copying", "done"} \/ c.late # ""
      /\ c.ci \/ c.sz = 0 ) =>
      /\ \A i \in 1 .. Len(c.log) : c.log[i].kind \in CoarseStates
      /\ c.digest = Concat(SubSeq(Body(c.version), 1, c.fed))

\* download_with_sha has returned from a 200 that declared its size, with
\* CI set, after a body of two chunks.
C19_Witness ==
  \E p \in Slots :
    LET c == call[p] IN
    /\ c.kind = "download_with_sha" /\ c.status = 200 /\ c.pc = "done"
    /\ c.ci /\ c.sz # 0 /\ c.fed = 2


\* C20: the headers object a caller passes, empty when the caller made
\* it, is as the caller made it after any number of calls.
C20_CallerHeadersUnchanged == hdrs = NoHeaders

====
